---- MODULE Spec2Model ----
(***************************************************************************)
(* Iron's HTTP Request (src/src/request/mod.rs): URL resolution            *)
(* (prepare_uri), the two constructors (from_http, from_header), the Body  *)
(* reader and the extension store, as a state machine.                     *)
(*                                                                         *)
(* Strings are sequences of one-character strings, so that format! is a    *)
(* concatenation and Url::parse is a parser of what was concatenated.      *)
(* Option<T> is a sequence of length 0 (None) or 1 (Some).                 *)
(***************************************************************************)
EXTENDS Integers, Sequences, FiniteSets, TLC

VARIABLES
    req,          \* the raw HttpRequest: uri, method, headers, remote_addr
    reqAlive,     \* FALSE once from_http has consumed (moved) the HttpRequest
    local_addr,   \* the local address the caller passes to both constructors
    protocol,     \* the Protocol the caller passes to both constructors
    conn,         \* the connection's byte source behind the HttpReader
    full,         \* Option<Result<Request>>: what from_http returned
    hdr,          \* Option<Result<Request>>: what from_header returned
    got,          \* the bytes the reads of full's Body have returned, in order
    reads,        \* the number of reads made on hdr's Body
    last          \* the last call made and what it returned

vars == <<req, reqAlive, local_addr, protocol, conn, full, hdr, got, reads, last>>

---------------------------------------------------------------------------
(* Bounds of the model *)

MaxHostLen == 2
MaxBody == 2
MaxBuf == 2
MaxReads == 2

---------------------------------------------------------------------------
(* Option and Result *)

None == <<>>
Some(x) == <<x>>
IsSome(o) == o # <<>>
Unwrap(o) == o[1]

Ok(v) == [ok |-> TRUE, val |-> v]
Err(e) == [ok |-> FALSE, err |-> e]

Min(a, b) == IF a <= b THEN a ELSE b

---------------------------------------------------------------------------
(* The error strings *)

MissingHost == "No host specified in request"
UnsupportedTarget == "Unsupported request URI"
BodyUnavailable == [kind |-> "InvalidInput", msg |-> "This request don't have body yet"]
SourceError == [kind |-> "ConnectionReset", msg |-> "source"]

---------------------------------------------------------------------------
(* Strings *)

Digit == <<"0", "1", "2", "3", "4", "5", "6", "7", "8", "9">>

RECURSIVE ToDigits(_)
\* format!("{}", n) of an unsigned integer
ToDigits(n) ==
    IF n < 10 THEN <<Digit[n + 1]>>
    ELSE ToDigits(n \div 10) \o <<Digit[(n % 10) + 1]>>

IsDigit(c) == \E i \in 1..10 : Digit[i] = c
DigitValue(c) == (CHOOSE i \in 1..10 : Digit[i] = c) - 1

RECURSIVE ParseNum(_)
\* the value of a non-empty sequence of digits
ParseNum(ds) ==
    IF Len(ds) = 0 THEN 0
    ELSE 10 * ParseNum(SubSeq(ds, 1, Len(ds) - 1)) + DigitValue(ds[Len(ds)])

\* the index of the first c in s, 0 when there is none
IndexOf(s, c) ==
    IF \E i \in 1..Len(s) : s[i] = c
    THEN CHOOSE i \in 1..Len(s) : s[i] = c /\ \A j \in 1..(i - 1) : s[j] # c
    ELSE 0

Drop(s, n) == SubSeq(s, n + 1, Len(s))
Take(s, n) == SubSeq(s, 1, n)

Http == <<"h", "t", "t", "p">>
Https == <<"h", "t", "t", "p", "s">>
Data == <<"d", "a", "t", "a">>

---------------------------------------------------------------------------
(* The url module: Url::parse and Url::from_generic_url *)

MaxPort == 65535

\* the schemes with an authority and a default port
DefaultPort(scheme) ==
    IF scheme = Http THEN Some(80)
    ELSE IF scheme = Https THEN Some(443)
    ELSE None

\* Url::from_generic_url: a generic URL [scheme, host, port: Option, path]
\* becomes a Url whose port is resolved, or is rejected
from_generic_url(g) ==
    IF DefaultPort(g.scheme) = None THEN Err(UnsupportedTarget)
    ELSE Ok([scheme |-> g.scheme,
             host |-> g.host,
             port |-> IF IsSome(g.port) THEN Unwrap(g.port)
                      ELSE Unwrap(DefaultPort(g.scheme)),
             path |-> g.path])

\* Url::parse: scheme "://" host [":" port] path
Url_parse(s) ==
    LET colon == IndexOf(s, ":")
        scheme == Take(s, colon - 1)
        rest == Drop(s, colon + 2)
        slash == IndexOf(rest, "/")
        authority == IF slash = 0 THEN rest ELSE Take(rest, slash - 1)
        path == IF slash = 0 THEN <<"/">> ELSE Drop(rest, slash - 1)
        pcolon == IndexOf(authority, ":")
        host == IF pcolon = 0 THEN authority ELSE Take(authority, pcolon - 1)
        portstr == IF pcolon = 0 THEN <<>> ELSE Drop(authority, pcolon)
    IN  IF colon <= 1 \/ Len(s) < colon + 2
           \/ SubSeq(s, colon + 1, colon + 2) # <<"/", "/">>
        THEN Err(UnsupportedTarget)
        ELSE IF Len(host) = 0 THEN Err(UnsupportedTarget)
        ELSE IF \E i \in 1..Len(portstr) : ~IsDigit(portstr[i])
        THEN Err(UnsupportedTarget)
        ELSE IF Len(portstr) > 5 \/ ParseNum(portstr) > MaxPort
        THEN Err(UnsupportedTarget)
        ELSE from_generic_url([scheme |-> scheme,
                               host |-> host,
                               port |-> IF Len(portstr) = 0 THEN None
                                        ELSE Some(ParseNum(portstr)),
                               path |-> path])

\* Protocol::name
Protocol_name(p) == IF p = "Https" THEN Https ELSE Http

---------------------------------------------------------------------------
(* Request::prepare_uri *)

\* format!("{}://{}:{}{}", protocol.name(), host.hostname, local_addr.port(), path)
url_string(p, host, la, path) ==
    Protocol_name(p) \o <<":", "/", "/">> \o host.hostname \o <<":">>
        \o ToDigits(la.port) \o path

\* a faulty variant of prepare_uri: the Host header, when there is one, also decides an
\* absolute-form target
prepare_uri_HostFirst(r, la, p) ==
    IF r.uri.form \in {"AbsoluteUri", "AbsolutePath"} THEN
        IF IsSome(r.headers.host)
        THEN Url_parse(url_string(p, Unwrap(r.headers.host), la,
                                  IF r.uri.form = "AbsoluteUri" THEN r.uri.url.path
                                  ELSE r.uri.path))
        ELSE IF r.uri.form = "AbsoluteUri" THEN from_generic_url(r.uri.url)
        ELSE Err(MissingHost)
    ELSE Err(UnsupportedTarget)

\* a faulty variant of prepare_uri: without a Host header the host is "localhost"
prepare_uri_Localhost(r, la, p) ==
    IF r.uri.form = "AbsoluteUri" THEN from_generic_url(r.uri.url)
    ELSE IF r.uri.form = "AbsolutePath" THEN
        Url_parse(url_string(p,
                             IF IsSome(r.headers.host) THEN Unwrap(r.headers.host)
                             ELSE [hostname |-> <<"l", "o", "c", "a", "l", "h", "o", "s", "t">>,
                                   port |-> None],
                             la, r.uri.path))
    ELSE Err(UnsupportedTarget)

\* a faulty variant of prepare_uri: "*" stands for the root path
prepare_uri_StarIsRoot(r, la, p) ==
    IF r.uri.form = "AbsoluteUri" THEN from_generic_url(r.uri.url)
    ELSE IF r.uri.form \in {"AbsolutePath", "Star"} THEN
        IF IsSome(r.headers.host)
        THEN Url_parse(url_string(p, Unwrap(r.headers.host), la,
                                  IF r.uri.form = "Star" THEN <<"/">> ELSE r.uri.path))
        ELSE Err(MissingHost)
    ELSE Err(UnsupportedTarget)

\* a faulty variant of prepare_uri: the two error messages change places
prepare_uri_SwappedErrors(r, la, p) ==
    IF r.uri.form = "AbsoluteUri" THEN from_generic_url(r.uri.url)
    ELSE IF r.uri.form = "AbsolutePath" THEN
        IF IsSome(r.headers.host)
        THEN Url_parse(url_string(p, Unwrap(r.headers.host), la, r.uri.path))
        ELSE Err(UnsupportedTarget)
    ELSE Err(MissingHost)

prepare_uri(r, la, p) ==
    IF r.uri.form = "AbsoluteUri" THEN from_generic_url(r.uri.url)
    ELSE IF r.uri.form = "AbsolutePath" THEN
        IF IsSome(r.headers.host)
        THEN Url_parse(url_string(p, Unwrap(r.headers.host), la, r.uri.path))
        ELSE Err(MissingHost)
    ELSE Err(UnsupportedTarget)

---------------------------------------------------------------------------
(* Body *)

\* Body::new: Body(Some(reader))
Body_new(reader) == [reader |-> Some(reader)]

\* Body::empty: Body(None)
Body_empty == [reader |-> None]

\* HttpReader::read on a buffer of n bytes: the source hands over the next k
\* bytes (k = 0 only at the natural end or for an empty buffer), or fails
HttpReader_read(c, n, k, fail) ==
    IF fail THEN [ret |-> Err(SourceError), conn |-> c]
    ELSE [ret |-> Ok(SubSeq(c.payload, c.pos + 1, c.pos + k)),
          conn |-> [c EXCEPT !.pos = @ + k]]

\* what the source may hand over for a buffer of n bytes
SourceMayYield(c, n, k) ==
    /\ k <= Min(n, Len(c.payload) - c.pos)
    /\ (k = 0 => (n = 0 \/ c.pos = Len(c.payload)))

\* a faulty variant of Body_read: an absent Body reads as an empty one
Body_read_EmptySuccess(body, c, n, k, fail) ==
    IF body.reader = None
    THEN [ret |-> Ok(<<>>), body |-> body, conn |-> c]
    ELSE LET out == HttpReader_read(c, n, k, fail)
         IN  [ret |-> out.ret, body |-> body, conn |-> out.conn]

\* a faulty variant of Body_read: a live Body reports one byte fewer than the source
\* handed over
Body_read_OneShort(body, c, n, k, fail) ==
    IF body.reader = None
    THEN [ret |-> Err(BodyUnavailable), body |-> body, conn |-> c]
    ELSE LET out == HttpReader_read(c, n, k, fail)
         IN  [ret |-> IF out.ret.ok /\ Len(out.ret.val) > 0
                      THEN Ok(Take(out.ret.val, Len(out.ret.val) - 1))
                      ELSE out.ret,
              body |-> body, conn |-> out.conn]

\* <Body as Read>::read: self.0.as_mut().ok_or(..).and_then(|r| r.read(buf))
Body_read(body, c, n, k, fail) ==
    IF body.reader = None
    THEN [ret |-> Err(BodyUnavailable), body |-> body, conn |-> c]
    ELSE LET out == HttpReader_read(c, n, k, fail)
         IN  [ret |-> out.ret, body |-> body, conn |-> out.conn]

---------------------------------------------------------------------------
(* The extension store: a TypeMap, as a set of <<type, value>> pairs *)

TypeMap_new == {}

TypeMap_get(m, t) ==
    IF \E e \in m : e[1] = t THEN Some((CHOOSE e \in m : e[1] = t)[2]) ELSE None

TypeMap_insert(m, t, v) ==
    [map |-> {e \in m : e[1] # t} \cup {<<t, v>>}, ret |-> TypeMap_get(m, t)]

TypeMap_remove(m, t) ==
    [map |-> {e \in m : e[1] # t}, ret |-> TypeMap_get(m, t)]

\* Extensible::extensions
extensions(r) == r.extensions

\* a faulty variant of extensions_mut: a new map instead of the Request's own
extensions_mut_Fresh(r) == TypeMap_new

\* Extensible::extensions_mut
extensions_mut(r) == r.extensions

---------------------------------------------------------------------------
(* The constructors *)

\* Request::from_http
from_http(r, la, p) ==
    LET url == prepare_uri(r, la, p)
    IN  IF ~url.ok THEN Err(url.err)
        ELSE Ok([url |-> url.val,
                 remote_addr |-> r.remote_addr,
                 local_addr |-> la,
                 headers |-> r.headers,
                 body |-> Body_new("reader"),
                 method |-> r.method,
                 extensions |-> TypeMap_new])

\* a faulty variant of from_header: the local address stands where the remote one belongs
from_header_LocalAsRemote(r, la, p) ==
    LET url == prepare_uri(r, la, p)
    IN  IF ~url.ok THEN Err(url.err)
        ELSE Ok([url |-> url.val,
                 remote_addr |-> la,
                 local_addr |-> la,
                 headers |-> r.headers,
                 body |-> Body_empty,
                 method |-> r.method,
                 extensions |-> TypeMap_new])

\* a faulty variant of from_header: a failed resolution gives a Request without a url
from_header_Partial(r, la, p) ==
    LET url == prepare_uri(r, la, p)
    IN  Ok([url |-> IF url.ok THEN Some(url.val) ELSE None,
            remote_addr |-> r.remote_addr,
            local_addr |-> la,
            headers |-> r.headers,
            body |-> Body_empty,
            method |-> r.method,
            extensions |-> TypeMap_new])

\* Request::from_header
from_header(r, la, p) ==
    LET url == prepare_uri(r, la, p)
    IN  IF ~url.ok THEN Err(url.err)
        ELSE Ok([url |-> url.val,
                 remote_addr |-> r.remote_addr,
                 local_addr |-> la,
                 headers |-> r.headers,
                 body |-> Body_empty,
                 method |-> r.method,
                 extensions |-> TypeMap_new])

---------------------------------------------------------------------------
(* The inputs *)

RECURSIVE SeqsUpTo(_, _)
\* the sequences over S of length at most n
SeqsUpTo(S, n) ==
    IF n = 0 THEN {<<>>}
    ELSE LET shorter == SeqsUpTo(S, n - 1)
         IN  shorter \cup {Append(s, x) : s \in shorter, x \in S}

\* Host.hostname is a String: hyper cuts the header's value at its last ':'
\* and checks nothing else
HostChars == {"h", ":", "/"}
Hostnames == SeqsUpTo(HostChars, MaxHostLen)
HostPorts == {None, Some(8080)}
HostHeaders == {None} \cup {Some([hostname |-> h, port |-> q]) : h \in Hostnames, q \in HostPorts}

Paths == {<<"/">>, <<"/", "p">>}

\* the URLs hyper hands over in RequestUri::AbsoluteUri
GenericUrls ==
    [scheme : {Http, Https, Data}, host : {<<"h">>}, port : {None, Some(81)},
     path : {<<"/", "p">>}]

RequestUris ==
    {[form |-> "AbsolutePath", path |-> q] : q \in Paths}
        \cup {[form |-> "AbsoluteUri", url |-> g] : g \in GenericUrls}
        \cup {[form |-> "Authority"], [form |-> "Star"]}

Methods == {"Get", "Post"}
Protocols == {"Http", "Https"}
LocalAddrs == {[ip |-> "10.0.0.1", port |-> q] : q \in {8080, 443}}
RemoteAddr == [ip |-> "10.0.0.2", port |-> 50000]

\* the payloads b1..bn, each byte its own, so that a byte out of place shows
Payloads == {[i \in 1..n |-> i] : n \in 0..MaxBody}

ExtTypes == {"T", "U"}
ExtValues == {1, 2}

HttpRequests(uris, hosts, methods) ==
    {[uri |-> u, method |-> m, headers |-> [host |-> h, user_agent |-> Some("ua")],
      remote_addr |-> RemoteAddr] : u \in uris, h \in hosts, m \in methods}

---------------------------------------------------------------------------
(* The state machine *)

Start(requests, locals, protocols, payloads) ==
    /\ req \in requests
    /\ reqAlive = TRUE
    /\ local_addr \in locals
    /\ protocol \in protocols
    /\ conn \in {[payload |-> b, pos |-> 0] : b \in payloads}
    /\ full = None
    /\ hdr = None
    /\ got = <<>>
    /\ reads = 0
    /\ last = [op |-> "none"]

\* every raw request, one payload
InitResolve ==
    Start(HttpRequests(RequestUris, HostHeaders, Methods), LocalAddrs, Protocols,
          {<<1, 2>>})

\* a few raw requests, every payload
Init ==
    Start(HttpRequests({[form |-> "AbsolutePath", path |-> <<"/", "p">>],
                        [form |-> "Star"]},
                       {None, Some([hostname |-> <<"h">>, port |-> None])},
                       {"Get"}),
          {[ip |-> "10.0.0.1", port |-> 8080]}, {"Http"}, Payloads)

\* the caller builds a header-only Request from a borrowed HttpRequest
FromHeader ==
    /\ reqAlive
    /\ hdr = None
    /\ hdr' = Some(from_header(req, local_addr, protocol))
    /\ last' = [op |-> "from_header"]
    /\ UNCHANGED <<req, reqAlive, local_addr, protocol, conn, full, got, reads>>

\* the caller builds a full Request, which consumes the HttpRequest
FromHttp ==
    /\ reqAlive
    /\ full = None
    /\ full' = Some(from_http(req, local_addr, protocol))
    /\ reqAlive' = FALSE
    /\ last' = [op |-> "from_http"]
    /\ UNCHANGED <<req, local_addr, protocol, conn, hdr, got, reads>>

Usable(x) == IsSome(x) /\ Unwrap(x).ok
Rq(x) == Unwrap(x).val

\* a middleware reads the Body of the full Request into a buffer of n bytes
ReadFull(n, k, fail) ==
    /\ Usable(full)
    /\ SourceMayYield(conn, n, k)
    /\ LET out == Body_read(Rq(full).body, conn, n, k, fail)
       IN  /\ full' = Some(Ok([Rq(full) EXCEPT !.body = out.body]))
           /\ conn' = out.conn
           /\ got' = IF out.ret.ok THEN got \o out.ret.val ELSE got
           /\ last' = [op |-> "read", on |-> "full", ret |-> out.ret,
                       src |-> HttpReader_read(conn, n, k, fail).ret]
    /\ UNCHANGED <<req, reqAlive, local_addr, protocol, hdr, reads>>

\* a middleware reads the Body of the header-only Request
ReadHdr(n, k, fail) ==
    /\ Usable(hdr)
    /\ reads < MaxReads
    /\ SourceMayYield(conn, n, k)
    /\ LET out == Body_read(Rq(hdr).body, conn, n, k, fail)
       IN  /\ hdr' = Some(Ok([Rq(hdr) EXCEPT !.body = out.body]))
           /\ conn' = out.conn
           /\ last' = [op |-> "read", on |-> "hdr", ret |-> out.ret]
    /\ reads' = reads + 1
    /\ UNCHANGED <<req, reqAlive, local_addr, protocol, full, got>>

Target(on) == IF on = "full" THEN full ELSE hdr

\* the Request `on` with its extension store replaced
Store(on, m) ==
    /\ full' = IF on = "full" THEN Some(Ok([Rq(full) EXCEPT !.extensions = m])) ELSE full
    /\ hdr' = IF on = "hdr" THEN Some(Ok([Rq(hdr) EXCEPT !.extensions = m])) ELSE hdr
    /\ UNCHANGED <<req, reqAlive, local_addr, protocol, conn, got, reads>>

\* req.extensions_mut().insert::<t>(v)
ExtInsert(on, t, v) ==
    /\ Usable(Target(on))
    /\ LET out == TypeMap_insert(extensions_mut(Rq(Target(on))), t, v)
       IN  /\ Store(on, out.map)
           /\ last' = [op |-> "insert", on |-> on, type |-> t, value |-> v,
                       ret |-> out.ret]

\* req.extensions_mut().remove::<t>()
ExtRemove(on, t) ==
    /\ Usable(Target(on))
    /\ LET out == TypeMap_remove(extensions_mut(Rq(Target(on))), t)
       IN  /\ Store(on, out.map)
           /\ last' = [op |-> "remove", on |-> on, type |-> t, ret |-> out.ret]

\* req.extensions().get::<t>()
ExtGet(on, t) ==
    /\ Usable(Target(on))
    /\ last' = [op |-> "get", on |-> on, type |-> t,
                ret |-> TypeMap_get(extensions(Rq(Target(on))), t)]
    /\ UNCHANGED <<req, reqAlive, local_addr, protocol, conn, full, hdr, got, reads>>

NextResolve ==
    \/ FromHeader
    \/ FromHttp

Next ==
    \/ FromHeader
    \/ FromHttp
    \/ \E n \in 0..MaxBuf, k \in 0..MaxBuf, fail \in BOOLEAN : ReadFull(n, k, fail)
    \/ \E n \in 0..MaxBuf, k \in 0..MaxBuf, fail \in BOOLEAN : ReadHdr(n, k, fail)
    \/ \E on \in {"full", "hdr"}, t \in ExtTypes, v \in ExtValues : ExtInsert(on, t, v)
    \/ \E on \in {"full", "hdr"}, t \in ExtTypes : ExtRemove(on, t)
    \/ \E on \in {"full", "hdr"}, t \in ExtTypes : ExtGet(on, t)

Spec == Init /\ [][Next]_vars

SpecResolve == InitResolve /\ [][NextResolve]_vars

---------------------------------------------------------------------------
(* What the claims speak of *)

Built == {x \in {full, hdr} : IsSome(x)}
BothBuilt == IsSome(full) /\ IsSome(hdr)
OriginForm == req.uri.form = "AbsolutePath"
AbsoluteForm == req.uri.form = "AbsoluteUri"
OtherForm == ~OriginForm /\ ~AbsoluteForm
HasHost == IsSome(req.headers.host)
Hostname == Unwrap(req.headers.host).hostname

\* a hostname that is a host: not empty, and free of the URL's delimiters
HostnameIsHost == Hostname # <<>> /\ \A i \in 1..Len(Hostname) : Hostname[i] \notin {":", "/"}

\* the URL scheme://host:local_port/path
SynthesizedUrl ==
    [scheme |-> Protocol_name(protocol), host |-> Hostname, port |-> local_addr.port,
     path |-> req.uri.path]

\* C1: the URL that an origin-form target with a Host header resolves to, on
\* either path, is scheme://host:local_port/path: its host is the Host
\* header's hostname and its port is local_addr's, whatever the Host header
\* holds. (Whether such a resolution can fail is C10's matter.)
C1_OriginFormUrl ==
    \A x \in Built :
        (OriginForm /\ HasHost /\ Unwrap(x).ok) => Rq(x).url = SynthesizedUrl

\* C1, for the hostnames that are hosts: the same statement holds.
C1_OriginFormUrlOfHost ==
    \A x \in Built :
        (OriginForm /\ HasHost /\ HostnameIsHost)
            => (Unwrap(x).ok /\ Rq(x).url = SynthesizedUrl)

\* the absolute-form target's URL, its port resolved
SameUrl(g) ==
    [scheme |-> g.scheme, host |-> g.host,
     port |-> IF IsSome(g.port) THEN Unwrap(g.port) ELSE Unwrap(DefaultPort(g.scheme)),
     path |-> g.path]

\* the Url u sent back as an absolute-form target
AsAbsoluteForm(u) ==
    [req EXCEPT !.uri = [form |-> "AbsoluteUri",
                         url |-> [scheme |-> u.scheme, host |-> u.host,
                                  port |-> Some(u.port), path |-> u.path]]]

\* C2: a well-formed absolute-form target resolves to that same URL, whatever
\* the Host header, local_addr's port and the scheme name are, and resolving
\* the result again gives the same URL.
C2_AbsoluteFormIsReturned ==
    \A x \in Built :
        (AbsoluteForm /\ IsSome(DefaultPort(req.uri.url.scheme))) =>
            /\ Unwrap(x).ok
            /\ Rq(x).url = SameUrl(req.uri.url)
            /\ prepare_uri(AsAbsoluteForm(Rq(x).url), local_addr, protocol) = Ok(Rq(x).url)

C2_Witness ==
    /\ BothBuilt /\ AbsoluteForm /\ Unwrap(full).ok /\ Unwrap(hdr).ok
    /\ HasHost /\ Hostname = <<"h", "h">>
    /\ req.uri.url.port = None /\ req.uri.url.scheme = Https
    /\ protocol = "Http" /\ local_addr.port = 8080

\* C3: an origin-form target without a Host header fails on both paths with
\* "No host specified in request", and no Request is produced.
C3_MissingHost ==
    \A x \in Built : (OriginForm /\ ~HasHost) => Unwrap(x) = Err(MissingHost)

C3_Witness ==
    BothBuilt /\ OriginForm /\ ~HasHost /\ req.method = "Post" /\ protocol = "Https"

\* C4: a target that is neither origin-form nor absolute-form fails on both
\* paths with "Unsupported request URI", also with a valid Host header.
C4_UnsupportedTarget ==
    \A x \in Built : OtherForm => Unwrap(x) = Err(UnsupportedTarget)

C4_Witness ==
    BothBuilt /\ req.uri.form = "Star" /\ HasHost /\ HostnameIsHost

\* C5: when resolution succeeds, from_http and from_header give Requests with
\* the same url, method, headers, remote_addr and local_addr and an empty
\* extension store: the first with a live Body, the second with an absent one.
C5_SameRequest ==
    (BothBuilt /\ Unwrap(full).ok /\ Unwrap(hdr).ok) =>
        /\ Rq(full).url = Rq(hdr).url
        /\ Rq(full).method = req.method /\ Rq(hdr).method = req.method
        /\ Rq(full).headers = req.headers /\ Rq(hdr).headers = req.headers
        /\ Rq(full).remote_addr = req.remote_addr /\ Rq(hdr).remote_addr = req.remote_addr
        /\ Rq(full).local_addr = local_addr /\ Rq(hdr).local_addr = local_addr
        /\ Rq(full).extensions = {} /\ Rq(hdr).extensions = {}
        /\ IsSome(Rq(full).body.reader) /\ Rq(hdr).body.reader = None
        /\ [Rq(full) EXCEPT !.body = 0] = [Rq(hdr) EXCEPT !.body = 0]

C5_Witness ==
    /\ BothBuilt /\ Unwrap(full).ok /\ Unwrap(hdr).ok
    /\ OriginForm /\ req.method = "Post" /\ local_addr.port = 443

\* C6: the two paths fail on the same inputs with the same error, and a
\* failure is the error alone: no Request, whole or partial, comes with it.
C6_AllOrNothing ==
    /\ BothBuilt =>
        /\ Unwrap(full).ok = Unwrap(hdr).ok
        /\ ~Unwrap(full).ok => Unwrap(full).err = Unwrap(hdr).err
    /\ \A x \in Built :
        /\ ~Unwrap(x).ok => DOMAIN Unwrap(x) = {"ok", "err"}
        /\ Unwrap(x).ok =>
              DOMAIN Rq(x) = {"url", "remote_addr", "local_addr", "headers", "body",
                              "method", "extensions"}

C6_Witness ==
    BothBuilt /\ ~Unwrap(full).ok /\ ~Unwrap(hdr).ok /\ OriginForm /\ ~HasHost

---------------------------------------------------------------------------
(* The Body and the extension store *)

\* C7: every read of a header-only Request's Body fails with BodyUnavailable,
\* the first as any later one and whatever the buffer's size, and leaves the
\* Body absent and the rest of the Request, the other Request and the
\* connection as they were.
C7_AbsentBodyReadFails ==
    [][(last'.op = "read" /\ last'.on = "hdr") =>
          /\ last'.ret = Err(BodyUnavailable)
          /\ Rq(hdr).body.reader = None
          /\ hdr' = hdr
          /\ full' = full /\ conn' = conn /\ got' = got]_vars

C7_Witness ==
    /\ reads = MaxReads /\ last.op = "read" /\ last.on = "hdr"
    /\ last.ret = Err(BodyUnavailable)
    /\ Usable(full) /\ conn.pos = 1

\* C8: the bytes the reads of a full Request's Body return, put together in
\* call order, are the bytes the source has handed over, which are a prefix
\* of its payload and the whole of it at its end; and each read returns what
\* the source returned for it, an error as well.
C8_LiveBodyDelegates ==
    Usable(full) =>
        /\ got = Take(conn.payload, conn.pos)
        /\ (last.op = "read" /\ last.on = "full") => last.ret = last.src

C8_Witness ==
    /\ Usable(full) /\ got = conn.payload /\ Len(got) = MaxBody /\ got[1] # got[2]
    /\ last.op = "read" /\ last.on = "full" /\ last.ret.ok /\ Len(last.ret.val) = 1

AtMostOnePerType(m) == \A e1, e2 \in m : e1[1] = e2[1] => e1 = e2

\* C9: the extension store is empty when either constructor returns; it holds
\* at most one value per type; insert<T>(v) returns the value get<T> gave
\* before and makes get<T> give v; remove<T> returns that value and makes
\* get<T> give none; get<T> gives none for a type never inserted; and no
\* insert or remove of T changes what get<U> gives, on the same Request for
\* another type U or on the other Request.
C9_ExtensionStore ==
    /\ [](\A x \in Built : Unwrap(x).ok => AtMostOnePerType(Rq(x).extensions))
    /\ [][/\ (last'.op = "from_http" /\ Usable(full)') => (Rq(full).extensions)' = {}
          /\ (last'.op = "from_header" /\ Usable(hdr)') => (Rq(hdr).extensions)' = {}
          /\ \A on \in {"full", "hdr"}, t \in ExtTypes :
                (last'.op \in {"insert", "remove", "get"} /\ last'.on = on
                    /\ last'.type = t) =>
                   /\ last'.ret = TypeMap_get(Rq(Target(on)).extensions, t)
                   /\ TypeMap_get((Rq(Target(on)).extensions)', t) =
                         (CASE last'.op = "insert" -> Some(last'.value)
                            [] last'.op = "remove" -> None
                            [] OTHER -> last'.ret)
                   /\ \A u \in ExtTypes \ {t} :
                         TypeMap_get((Rq(Target(on)).extensions)', u) =
                            TypeMap_get(Rq(Target(on)).extensions, u)
                   /\ \A o \in {"full", "hdr"} \ {on} : Target(o)' = Target(o)]_vars

C9_Witness ==
    /\ Usable(hdr) /\ Usable(full)
    /\ Rq(hdr).extensions = {<<"T", 2>>, <<"U", 1>>}
    /\ Rq(full).extensions = {}
    /\ last = [op |-> "insert", on |-> "hdr", type |-> "T", value |-> 2, ret |-> Some(1)]

====
